---------------------------- MODULE Spec2Model ----------------------------
(***************************************************************************)
(* Model of the slide parser backend (src/main.py): the /api/upload and    *)
(* /api/process handlers around the in-memory session_storage map, the     *)
(* PDF conversion loop and the filename sanitizer.                         *)
(*                                                                         *)
(* Text values (fund ids, filenames, categories) are sequences of          *)
(* one-character strings, so that the regular-expression steps of          *)
(* sanitize_filename and the extension test of allowed_file are computed   *)
(* character by character.                                                 *)
(***************************************************************************)
EXTENDS Integers, Sequences, FiniteSets, TLC

VARIABLES
    session_storage,  \* main.py:29  session id -> session record
    issued,           \* session ids uuid4 has produced so far (main.py:179)
    temp_files,       \* names of the temporary PDF files existing on disk
    upload_req,       \* the last /api/upload request
    upload_resp,      \* the response to it
    handler,          \* worker -> the /api/process request it is handling
    aws_configured,   \* main.py:23-26 all of key id, secret and bucket set
    san               \* sanitize_filename applied to a text, and to its result

vars == <<session_storage, issued, temp_files, upload_req, upload_resp,
          handler, aws_configured, san>>

---------------------------------------------------------------------------
(* Bounds of the model *)

\* pages of an uploaded PDF
MaxPages == 2
\* entries in the selected_slides list of a process request
MaxSel == 3
\* sessions created in one behaviour
MaxSessions == 2
\* temporary files left on disk in one behaviour
MaxTemp == 2
\* length of the texts given to sanitize_filename on its own
MaxLen == 3

---------------------------------------------------------------------------
(* Characters *)

WordChars ==
    {"a", "b", "d", "f", "i", "n", "o", "p", "r", "t", "x", "y",
     "A", "B", "D", "F", "I", "P", "1", "_"}

IsWord(c) == c \in WordChars

SpaceChars == {" "}

IsSpace(c) == c \in SpaceChars

Lower(c) ==
    CASE c = "A" -> "a"
      [] c = "B" -> "b"
      [] c = "D" -> "d"
      [] c = "F" -> "f"
      [] c = "I" -> "i"
      [] c = "P" -> "p"
      [] OTHER -> c

LowerText(s) == [k \in 1..Len(s) |-> Lower(s[k])]

RECURSIVE LStrip(_, _)
LStrip(s, chars) ==
    IF s # <<>> /\ Head(s) \in chars THEN LStrip(Tail(s), chars) ELSE s

RECURSIVE RStrip(_, _)
RStrip(s, chars) ==
    IF s # <<>> /\ s[Len(s)] \in chars
    THEN RStrip(SubSeq(s, 1, Len(s) - 1), chars)
    ELSE s

\* str.strip(): whitespace off both ends
strip(s) == RStrip(LStrip(s, SpaceChars), SpaceChars)

---------------------------------------------------------------------------
(* sanitize_filename, main.py:47-52 *)

IsKept(c) == IsWord(c) \/ IsSpace(c) \/ c = "-"

SeparatorChars == {"-"} \cup SpaceChars

IsSeparator(c) == c \in SeparatorChars

\* re.sub(r'[^\w\s-]', '', text)
RemoveDisallowed(text) == SelectSeq(text, IsKept)

\* re.sub(r'[-\s]+', '_', sanitized)
RECURSIVE CollapseSeparators(_)
CollapseSeparators(s) ==
    IF s = <<>> THEN <<>>
    ELSE IF IsSeparator(Head(s))
         THEN <<"_">> \o CollapseSeparators(LStrip(Tail(s), SeparatorChars))
         ELSE <<Head(s)>> \o CollapseSeparators(Tail(s))

\* sanitized.strip('_')
StripUnderscores(s) == RStrip(LStrip(s, {"_"}), {"_"})

\* a sanitizer that trims the underscores before it collapses the separators
sanitize_filename_trim_first(text) ==
    CollapseSeparators(StripUnderscores(RemoveDisallowed(text)))

sanitize_filename(text) ==
    StripUnderscores(CollapseSeparators(RemoveDisallowed(text)))

---------------------------------------------------------------------------
(* allowed_file, main.py:31-32 *)

ALLOWED_EXTENSIONS == {<<"p", "d", "f">>}

\* filename.rsplit('.', 1)[1]: the text after the last dot
AfterLastDot(filename) ==
    LET last == CHOOSE k \in 1..Len(filename) :
                    /\ filename[k] = "."
                    /\ \A j \in (k + 1)..Len(filename) : filename[j] # "."
    IN  SubSeq(filename, last + 1, Len(filename))

allowed_file(filename) ==
    /\ \E k \in 1..Len(filename) : filename[k] = "."
    /\ LowerText(AfterLastDot(filename)) \in ALLOWED_EXTENSIONS

---------------------------------------------------------------------------
(* convert_pdf_to_images, main.py:54-91 *)

\* A PDF as the rasterizer sees it: its number of pages and where conversion
\* raises. fail_at = 0: convert_from_path itself raises (line 57);
\* fail_at = k in 1..pages: an exception while page k is handled in the loop
\* (lines 62-86); fail_at = pages + 1: nothing raises.
PdfInputs ==
    UNION {{[pages |-> n, fail_at |-> f] : f \in 0..(n + 1)} : n \in 0..MaxPages}

\* convert_from_path(pdf_path, dpi=150, fmt='PNG'), line 57: one image per
\* page, in page order
convert_from_path(pdf) == [p \in 1..pdf.pages |-> [page |-> p]]

\* lines 64-70: the base64 PNG of the 300x200 thumbnail of an image
Thumbnail(image) == [thumbnail_of |-> image.page]

\* lines 73-75: the PNG bytes of the full-size image
FullImageData(image) == [png_of |-> image.page]

\* lines 77-83, for enumerate index i (0-based)
SlideData(i, image) ==
    [id |-> i + 1, thumbnail |-> Thumbnail(image), title |-> i + 1,
     selected |-> FALSE]

\* a loop that hands back what it has when a page fails
RECURSIVE ConvertLoopPartial(_, _, _, _, _)
ConvertLoopPartial(images, i, slides, temp_images, fail_at) ==
    IF i = Len(images) THEN <<slides, temp_images>>
    ELSE IF fail_at = i + 1 THEN <<slides, temp_images>>
    ELSE ConvertLoopPartial(images, i + 1,
                            Append(slides, SlideData(i, images[i + 1])),
                            Append(temp_images, FullImageData(images[i + 1])),
                            fail_at)

\* lines 62-91: the loop over enumerate(images); an exception in any
\* iteration reaches the except clause, which returns [], []
RECURSIVE ConvertLoop(_, _, _, _, _)
ConvertLoop(images, i, slides, temp_images, fail_at) ==
    IF i = Len(images) THEN <<slides, temp_images>>
    ELSE IF fail_at = i + 1 THEN <<<<>>, <<>>>>
    ELSE ConvertLoop(images, i + 1,
                     Append(slides, SlideData(i, images[i + 1])),
                     Append(temp_images, FullImageData(images[i + 1])),
                     fail_at)

convert_pdf_to_images(pdf) ==
    IF pdf.fail_at = 0 THEN <<<<>>, <<>>>>
    ELSE ConvertLoop(convert_from_path(pdf), 0, <<>>, <<>>, pdf.fail_at)

---------------------------------------------------------------------------
(* /api/upload, main.py:137-204 *)

\* app.config['MAX_CONTENT_LENGTH'], main.py:19
MAX_CONTENT_LENGTH == 50 * 1024 * 1024

\* the value a falsy or absent session_id has in the model
NoSessionId == 0

NoSession == [slides |-> <<>>]

UploadResponse(status, error, session_id, slides) ==
    [status |-> status, error |-> error, session_id |-> session_id,
     slides |-> slides, total_slides |-> Len(slides)]

NoResponse == UploadResponse(0, "", NoSessionId, <<>>)

\* no upload request at hand
NoUpload ==
    [has_file |-> FALSE, fund_id |-> <<>>, fund_name |-> <<>>,
     filename |-> <<>>, file_size |-> 0, limit_hit |-> FALSE,
     save_fails |-> FALSE, pdf |-> [pages |-> 0, fail_at |-> 0]]

\* uuid.uuid4(), line 179: a value no earlier call has returned
uuid4_reusing_free_ids ==
    CHOOSE k \in 1..(MaxSessions + 1) :
        /\ k \notin DOMAIN session_storage
        /\ \A j \in 1..(k - 1) : j \in DOMAIN session_storage

uuid4 == Cardinality(issued) + 1

\* tempfile.NamedTemporaryFile(delete=False), line 166: a name not on disk
NamedTemporaryFile ==
    CHOOSE k \in 1..(MaxTemp + 1) :
        /\ k \notin temp_files
        /\ \A j \in 1..(k - 1) : j \in temp_files

\* The handler from its first line to its return, for request u, as
\* [resp, session, temp_left]: the response, the record stored in
\* session_storage (NoSession: none) and whether the temporary file is
\* still on disk at the return.
\*   u.limit_hit: the framework's MAX_CONTENT_LENGTH limit (line 19) fires
\*   when the body is first read, which is request.files at line 141, inside
\*   the try block; the exception is then caught at line 202.
upload_pdf(u, session_id) ==
    LET fund_id == strip(u.fund_id)
        fund_name == strip(u.fund_name)
        failed(status, error, temp_left) ==
            [resp |-> UploadResponse(status, error, NoSessionId, <<>>),
             session |-> NoSession, temp_left |-> temp_left]
    IN
    IF u.file_size > MAX_CONTENT_LENGTH /\ u.limit_hit
    THEN failed(500, "Internal server error", FALSE)
    ELSE IF ~u.has_file
    THEN failed(400, "No file provided", FALSE)
    ELSE IF fund_id = <<>> \/ fund_name = <<>>
    THEN failed(400, "Fund ID and Fund Name are required", FALSE)
    ELSE IF u.filename = <<>>
    THEN failed(400, "No file selected", FALSE)
    ELSE IF ~allowed_file(u.filename)
    THEN failed(400, "Invalid file type. Only PDF files are allowed.", FALSE)
    ELSE IF u.file_size > MAX_CONTENT_LENGTH
    THEN failed(400, "File size exceeds 50MB limit", FALSE)
    ELSE IF u.save_fails
    THEN \* file.save raises at line 167: os.unlink at line 173 is not reached
         failed(500, "Internal server error", TRUE)
    ELSE LET converted == convert_pdf_to_images(u.pdf)
             slides == converted[1]
             temp_images == converted[2]
         IN  IF slides = <<>>
             THEN failed(500, "Failed to process PDF", FALSE)
             ELSE [resp |-> UploadResponse(200, "", session_id, slides),
                   session |-> [slides |-> slides,
                                temp_images |-> temp_images,
                                fund_id |-> fund_id,
                                fund_name |-> fund_name,
                                safe_fund_id |-> sanitize_filename(fund_id),
                                safe_fund_name |-> sanitize_filename(fund_name)],
                   temp_left |-> FALSE]

Upload(u) ==
    LET out == upload_pdf(u, uuid4) IN
    /\ upload_resp = NoResponse
    /\ out.session # NoSession => Cardinality(issued) < MaxSessions
    /\ out.temp_left => Cardinality(temp_files) < MaxTemp
    /\ upload_req' = u
    /\ upload_resp' = out.resp
    /\ temp_files' = IF out.temp_left
                     THEN temp_files \cup {NamedTemporaryFile}
                     ELSE temp_files
    /\ IF out.session # NoSession
       THEN /\ session_storage' =
                   [k \in DOMAIN session_storage \cup {out.resp.session_id} |->
                       IF k = out.resp.session_id THEN out.session
                       ELSE session_storage[k]]
            /\ issued' = issued \cup {out.resp.session_id}
       ELSE UNCHANGED <<session_storage, issued>>
    /\ UNCHANGED <<handler, aws_configured, san>>

\* the response has gone to the client: the next upload request can come
UploadReturn ==
    /\ upload_resp # NoResponse
    /\ upload_req' = NoUpload
    /\ upload_resp' = NoResponse
    /\ UNCHANGED <<session_storage, issued, temp_files, handler,
                   aws_configured, san>>

---------------------------------------------------------------------------
(* /api/process, main.py:206-330 *)

\* the request threads of the host that run process_slides
Workers == {"w1", "w2"}

\* a dict with no keys
EmptyDict == [c \in {} |-> <<>>]

\* line 325
RECURSIVE SumLengths(_, _)
SumLengths(uploaded_slides, keys) ==
    IF keys = {} THEN 0
    ELSE LET c == CHOOSE k \in keys : TRUE
         IN  Len(uploaded_slides[c]) + SumLengths(uploaded_slides, keys \ {c})

TotalUploaded(uploaded_slides) == SumLengths(uploaded_slides, DOMAIN uploaded_slides)

ProcessResponse(status, error, slide_id, cause, uploaded_slides, html_sections) ==
    [status |-> status, error |-> error, slide_id |-> slide_id,
     cause |-> cause, uploaded_slides |-> uploaded_slides,
     html_sections |-> html_sections,
     total_uploaded |-> TotalUploaded(uploaded_slides)]

\* the error responses: error is the text of the 'error' field, slide_id the
\* slide the text names (0: none), cause the exception the log line records
ProcessError(status, error, slide_id, cause) ==
    ProcessResponse(status, error, slide_id, cause, EmptyDict, EmptyDict)

NoProcessResponse == ProcessError(0, "", 0, "")

IdleHandler ==
    [pc |-> "idle", session_id |-> NoSessionId, selected_slides |-> <<>>,
     i |-> 0, session_data |-> NoSession, uploaded_slides |-> EmptyDict,
     puts |-> <<>>, resp |-> NoProcessResponse, raced |-> FALSE,
     known |-> FALSE]

\* line 219 read as if every session id were stored
session_known_always(session_id) == TRUE

\* session_id in session_storage, line 219
session_known(session_id) == session_id \in DOMAIN session_storage

\* lines 256-257
Filename(session_data, slide_id) ==
    [safe_fund_id |-> session_data.safe_fund_id,
     safe_fund_name |-> session_data.safe_fund_name,
     slide_id |-> slide_id]

S3Key(session_id, session_data, slide_id) ==
    [session_id |-> session_id, filename |-> Filename(session_data, slide_id)]

\* line 272
S3Url(s3_key) == [bucket |-> "S3_BUCKET_NAME", region |-> "AWS_REGION", key |-> s3_key]

\* temp_images[image_index] for a Python index below len(temp_images):
\* raises IndexError below -len, counts from the end below 0
IndexInRange(temp_images, image_index) == image_index >= -Len(temp_images)

PyIndex(temp_images, image_index) ==
    IF image_index >= 0
    THEN temp_images[image_index + 1]
    ELSE temp_images[Len(temp_images) + image_index + 1]

\* a grouping that puts the newest entry of a category first
AddToCategoryFirst(uploaded_slides, category, entry) ==
    IF category \in DOMAIN uploaded_slides
    THEN [uploaded_slides EXCEPT ![category] = <<entry>> \o @]
    ELSE [c \in DOMAIN uploaded_slides \cup {category} |->
            IF c = category THEN <<entry>> ELSE uploaded_slides[c]]

\* lines 275-283
AddToCategory(uploaded_slides, category, entry) ==
    IF category \in DOMAIN uploaded_slides
    THEN [uploaded_slides EXCEPT ![category] = Append(@, entry)]
    ELSE [c \in DOMAIN uploaded_slides \cup {category} |->
            IF c = category THEN <<entry>> ELSE uploaded_slides[c]]

\* lines 296-313: the markup of one category, as its parts
HtmlSection(category, slides) ==
    [comment |-> category,
     class |-> IF category # <<>>
               THEN sanitize_filename(LowerText(category))
               ELSE <<"u", "n", "c", "a", "t">>,
     heading |-> category,
     items |-> [k \in 1..Len(slides) |->
                  [src |-> slides[k].s3_url,
                   alt |-> <<category, slides[k].id>>,
                   caption |-> slides[k].id]]]

\* lines 292-313
HtmlSections(uploaded_slides) ==
    [c \in DOMAIN uploaded_slides |-> HtmlSection(c, uploaded_slides[c])]

\* a handler between its session lookup and its return
InFlight(w) == handler[w].pc \in {"checked", "uploading"}

Finish(w, resp) ==
    handler' = [handler EXCEPT ![w].pc = "done", ![w].resp = resp]

\* lines 209-220: the request is read and validated, the session looked up.
\* raced records that another handler was in flight on the same session id
\* while this one ran, known that an upload had returned the session id
\* before the request came.
ProcessStart(w, session_id, selected_slides) ==
    /\ handler[w].pc = "idle"
    /\ LET overlap == {o \in Workers \ {w} :
                          InFlight(o) /\ handler[o].session_id = session_id}
           request == [IdleHandler EXCEPT !.session_id = session_id,
                                          !.selected_slides = selected_slides,
                                          !.raced = overlap # {},
                                          !.known = session_id \in issued]
           started ==
               IF session_id = NoSessionId \/ selected_slides = <<>>
               THEN [request EXCEPT
                       !.pc = "done",
                       !.resp = ProcessError(400,
                                  "Missing session ID or selected slides", 0, "")]
               ELSE IF ~session_known(session_id)
               THEN [request EXCEPT
                       !.pc = "done",
                       !.resp = ProcessError(404,
                                  "Session not found or expired", 0, "")]
               ELSE [request EXCEPT !.pc = "checked"]
       IN  handler' = [o \in Workers |->
                         IF o = w THEN started
                         ELSE IF o \in overlap
                         THEN [handler[o] EXCEPT !.raced = TRUE]
                         ELSE handler[o]]
    /\ UNCHANGED <<session_storage, issued, temp_files, upload_req,
                   upload_resp, aws_configured, san>>

\* lines 222-237: session_data is read from the store (KeyError when the
\* session has gone since line 219, caught at line 328), the configuration
\* is checked and the storage client made (client_ok: get_s3_client returned
\* a client)
ProcessLoad(w, client_ok) ==
    /\ handler[w].pc = "checked"
    /\ IF handler[w].session_id \notin DOMAIN session_storage
       THEN Finish(w, ProcessError(500, "Internal server error", 0, "KeyError"))
       ELSE IF ~aws_configured
       THEN Finish(w, ProcessError(500, "AWS S3 not configured", 0, ""))
       ELSE IF ~client_ok
       THEN Finish(w, ProcessError(500, "Failed to connect to S3", 0, ""))
       ELSE handler' = [handler EXCEPT
                          ![w].pc = "uploading",
                          ![w].session_data = session_storage[handler[w].session_id]]
    /\ UNCHANGED <<session_storage, issued, temp_files, upload_req,
                   upload_resp, aws_configured, san>>

\* the outcomes of s3_client.put_object: it returns, it raises ClientError
\* (caught at line 287), or it raises another exception (caught at line 328)
PutOutcomes == {"ok", "ClientError", "OtherError"}

\* lines 239-289: one iteration of the loop over selected_slides
ProcessUpload(w, outcome) ==
    /\ handler[w].pc = "uploading"
    /\ handler[w].i < Len(handler[w].selected_slides)
    /\ LET h == handler[w]
           selected_slide == h.selected_slides[h.i + 1]
           slide_id == selected_slide.id
           category == selected_slide.category
           temp_images == h.session_data.temp_images
           image_index == slide_id - 1
           s3_key == S3Key(h.session_id, h.session_data, slide_id)
           entry == [id |-> slide_id,
                     filename |-> Filename(h.session_data, slide_id),
                     s3_url |-> S3Url(s3_key), s3_key |-> s3_key]
       IN
       IF slide_id = 0 \/ category = <<>>
       THEN handler' = [handler EXCEPT ![w].i = h.i + 1]
       ELSE IF image_index >= Len(temp_images)
       THEN handler' = [handler EXCEPT ![w].i = h.i + 1]
       ELSE IF ~IndexInRange(temp_images, image_index)
       THEN Finish(w, ProcessError(500, "Internal server error", 0, "IndexError"))
       ELSE LET put == [Key |-> s3_key, Body |-> PyIndex(temp_images, image_index)]
            IN  CASE outcome = "ok" ->
                       handler' = [handler EXCEPT
                          ![w].i = h.i + 1,
                          ![w].puts = Append(@, put),
                          ![w].uploaded_slides =
                              AddToCategory(@, category, entry)]
                  [] outcome = "ClientError" ->
                       Finish(w, ProcessError(500, "Failed to upload slide to S3",
                                              slide_id, "ClientError"))
                  [] outcome = "OtherError" ->
                       Finish(w, ProcessError(500, "Internal server error",
                                              0, "OtherError"))
    /\ UNCHANGED <<session_storage, issued, temp_files, upload_req,
                   upload_resp, aws_configured, san>>

\* lines 291-326: the markup is built, the session deleted (KeyError when it
\* is no longer stored, caught at line 328) and the result returned
ProcessFinish(w) ==
    /\ handler[w].pc = "uploading"
    /\ handler[w].i = Len(handler[w].selected_slides)
    /\ LET h == handler[w] IN
       IF h.session_id \in DOMAIN session_storage
       THEN /\ session_storage' =
                  [k \in DOMAIN session_storage \ {h.session_id} |->
                      session_storage[k]]
            /\ Finish(w, ProcessResponse(200, "", 0, "", h.uploaded_slides,
                                         HtmlSections(h.uploaded_slides)))
       ELSE /\ Finish(w, ProcessError(500, "Internal server error", 0, "KeyError"))
            /\ UNCHANGED session_storage
    /\ UNCHANGED <<issued, temp_files, upload_req, upload_resp,
                   aws_configured, san>>

\* the response has gone to the client: the worker is free again
ProcessReturn(w) ==
    /\ handler[w].pc = "done"
    /\ handler' = [handler EXCEPT ![w] = IdleHandler]
    /\ UNCHANGED <<session_storage, issued, temp_files, upload_req,
                   upload_resp, aws_configured, san>>

---------------------------------------------------------------------------
(* Requests *)

FundIdInputs == {<<>>, <<"F", "-", "1">>}

FundNameInputs == {<<" ">>, <<" ", "A", " ", "B">>}

FilenameInputs ==
    {<<>>, <<"p", "d", "f">>, <<"d", ".", "t", "x", "t">>,
     <<"a", ".", "b", ".", "P", "D", "F">>}

FileSizes == {MAX_CONTENT_LENGTH, MAX_CONTENT_LENGTH + 1}

UploadInputs ==
    [has_file : BOOLEAN, fund_id : FundIdInputs, fund_name : FundNameInputs,
     filename : FilenameInputs, file_size : FileSizes, limit_hit : BOOLEAN,
     save_fails : BOOLEAN, pdf : PdfInputs]

\* the upload of a PDF of n pages that converts, by a client that fills in
\* the form
GoodUpload(n) ==
    [has_file |-> TRUE, fund_id |-> <<"F", "-", "1">>,
     fund_name |-> <<" ", "A", " ", "B">>,
     filename |-> <<"a", ".", "b", ".", "P", "D", "F">>,
     file_size |-> MAX_CONTENT_LENGTH, limit_hit |-> FALSE,
     save_fails |-> FALSE, pdf |-> [pages |-> n, fail_at |-> n + 1]]

SessionIdInputs == {NoSessionId} \cup 1..MaxSessions

\* with one upload: the id that upload returns (unknown before it)
OneSessionIdInputs == {1}

CatIntro == <<"I", "n", "t", "r", "o">>

CatBody == <<"b", "o", "d", "y">>

Categories == {CatIntro, CatBody}

\* the entries a selection list is made of: every page with every category,
\* and ids below, at and above the range of pages, and a missing category
SelectionEntries ==
    {[id |-> k, category |-> c] : k \in 1..MaxPages, c \in Categories}
    \cup {[id |-> k, category |-> CatIntro] : k \in {-1, 0, MaxPages + 1}}
    \cup {[id |-> 1, category |-> <<>>]}

Selections == UNION {[1..n -> SelectionEntries] : n \in 0..MaxSel}

\* the selection lists of the requests that race
RaceSelections ==
    {<<>>,
     <<[id |-> 1, category |-> CatIntro]>>,
     <<[id |-> 1, category |-> CatIntro], [id |-> 2, category |-> CatBody]>>}

---------------------------------------------------------------------------
(* sanitize_filename on its own *)

SanitizeAlphabet == {"a", "_", "-", " ", "!"}

Texts == UNION {[1..n -> SanitizeAlphabet] : n \in 0..MaxLen}

SanOff == [pc |-> "off", text |-> <<>>, once |-> <<>>, twice |-> <<>>]

SanitizeOnce ==
    /\ san.pc = "input"
    /\ san' = [san EXCEPT !.pc = "once", !.once = sanitize_filename(san.text)]
    /\ UNCHANGED <<session_storage, issued, temp_files, upload_req,
                   upload_resp, handler, aws_configured>>

SanitizeTwice ==
    /\ san.pc = "once"
    /\ san' = [san EXCEPT !.pc = "twice", !.twice = sanitize_filename(san.once)]
    /\ UNCHANGED <<session_storage, issued, temp_files, upload_req,
                   upload_resp, handler, aws_configured>>

---------------------------------------------------------------------------
(* Specifications *)

\* the state after the module is loaded (main.py:15-29), no request handled
Init ==
    /\ session_storage = EmptyDict
    /\ issued = {}
    /\ temp_files = {}
    /\ upload_req = NoUpload
    /\ upload_resp = NoResponse
    /\ handler = [w \in Workers |-> IdleHandler]
    /\ aws_configured \in BOOLEAN
    /\ san = SanOff

\* no upload request is being answered
UploadFree == upload_resp = NoResponse

\* worker w has no request
WorkerFree(w) == handler[w].pc = "idle"

\* uploads and two workers handling process requests concurrently
Next ==
    \/ UploadFree /\ Upload(GoodUpload(MaxPages))
    \/ UploadReturn
    \/ \E w \in Workers :
          WorkerFree(w) /\ \E session_id \in SessionIdInputs,
                              selected_slides \in RaceSelections :
                                ProcessStart(w, session_id, selected_slides)
    \/ \E w \in Workers, client_ok \in BOOLEAN : ProcessLoad(w, client_ok)
    \/ \E w \in Workers, outcome \in PutOutcomes : ProcessUpload(w, outcome)
    \/ \E w \in Workers : ProcessFinish(w)
    \/ \E w \in Workers : ProcessReturn(w)

Spec == Init /\ [][Next]_vars

\* a deployment with its storage configured
InitConfigured == Init /\ aws_configured

\* one upload, and process requests with every selection list, handled one
\* at a time by a client that is not waiting for an upload's response
NextProcess ==
    \/ UploadFree /\ issued = {} /\ \E n \in 1..MaxPages : Upload(GoodUpload(n))
    \/ UploadReturn
    \/ UploadFree /\ WorkerFree("w1") /\ \E session_id \in OneSessionIdInputs,
                              selected_slides \in Selections :
                                ProcessStart("w1", session_id, selected_slides)
    \/ \E client_ok \in BOOLEAN : ProcessLoad("w1", client_ok)
    \/ \E outcome \in PutOutcomes : ProcessUpload("w1", outcome)
    \/ ProcessFinish("w1")
    \/ ProcessReturn("w1")

SpecProcess == InitConfigured /\ [][NextProcess]_vars

\* upload requests of every kind
NextUpload ==
    \/ UploadFree /\ \E u \in UploadInputs : Upload(u)
    \/ UploadReturn

SpecUpload == InitConfigured /\ [][NextUpload]_vars

\* sanitize_filename applied twice to every text of the alphabet
InitSanitize ==
    /\ session_storage = EmptyDict
    /\ issued = {}
    /\ temp_files = {}
    /\ upload_req = NoUpload
    /\ upload_resp = NoResponse
    /\ handler = [w \in Workers |-> IdleHandler]
    /\ aws_configured = TRUE
    /\ san \in {[SanOff EXCEPT !.pc = "input", !.text = t] : t \in Texts}

NextSanitize == SanitizeOnce \/ SanitizeTwice

SpecSanitize == InitSanitize /\ [][NextSanitize]_vars

---------------------------------------------------------------------------
(* Properties *)

\* the session ids whose session a process request has deleted (line 318)
Consumed == issued \ DOMAIN session_storage

\* worker w takes a request in this step
Starts(w) == handler[w].pc = "idle" /\ handler'[w].pc # "idle"

\* the upload handler runs in this step
Uploads == upload_resp = NoResponse /\ upload_resp' # NoResponse

\* the storage client was made and no put_object call of worker w failed
StorageWorked(w) ==
    /\ handler[w].resp.error \notin
          {"AWS S3 not configured", "Failed to connect to S3"}
    /\ handler[w].resp.cause \notin {"ClientError", "OtherError"}

\* C1: of two process requests that run concurrently on the same session id,
\* each with a session id and a non-empty selection list and with the
\* storage working, when one returns success the other has observed 404 and
\* has made no put_object call.
RacingRequestsOneWinner ==
    \A w1 \in Workers : \A w2 \in Workers \ {w1} :
        ( /\ handler[w1].pc = "done" /\ handler[w2].pc = "done"
          /\ handler[w1].raced /\ handler[w2].raced
          /\ handler[w1].session_id = handler[w2].session_id
          /\ handler[w1].session_id # NoSessionId
          /\ handler[w1].selected_slides # <<>>
          /\ handler[w2].selected_slides # <<>>
          /\ StorageWorked(w1) /\ StorageWorked(w2)
          /\ handler[w1].resp.status = 200 )
        => /\ handler[w2].resp.status = 404
           /\ handler[w2].puts = <<>>

\* C2: a process request that comes for a session id whose session has been
\* consumed is answered 404, and a consumed session id is never in
\* session_storage again.
ConsumedSessionNotFound ==
    [][ /\ \A w \in Workers :
              (Starts(w) /\ handler'[w].session_id \in Consumed)
              => (handler'[w].pc = "done" /\ handler'[w].resp.status = 404)
        /\ \A id \in Consumed : id \notin DOMAIN session_storage' ]_vars

\* C2, amended: a process request with a non-empty selection list that
\* comes for a session id whose session has been consumed is answered 404,
\* and a consumed session id is never in session_storage again.
ConsumedSessionNotFoundWithSelection ==
    [][ /\ \A w \in Workers :
              ( /\ Starts(w)
                /\ handler'[w].session_id \in Consumed
                /\ handler'[w].selected_slides # <<>> )
              => (handler'[w].pc = "done" /\ handler'[w].resp.status = 404)
        /\ \A id \in Consumed : id \notin DOMAIN session_storage' ]_vars

\* C2: a request with a selection was answered 404 for a session id that an
\* upload had returned, and another session is stored meanwhile
ConsumedSessionAskedAgain ==
    \E w \in Workers :
        /\ handler[w].pc = "done"
        /\ handler[w].known
        /\ handler[w].selected_slides # <<>>
        /\ handler[w].session_id \in Consumed
        /\ handler[w].resp.status = 404
        /\ DOMAIN session_storage # {}

\* C4: a process request that names a session id no upload has returned is
\* answered 404 at once, makes no put_object call and leaves
\* session_storage as it was.
UnknownSessionNotFound ==
    [][ \A w \in Workers :
          ( /\ Starts(w)
            /\ handler'[w].session_id # NoSessionId
            /\ handler'[w].session_id \notin issued )
          => /\ handler'[w].pc = "done"
             /\ handler'[w].resp.status = 404
             /\ handler'[w].puts = <<>>
             /\ session_storage' = session_storage ]_vars

\* C4, amended: a process request with a non-empty selection list that names
\* a session id no upload has returned is answered 404 at once, makes no
\* put_object call and leaves session_storage as it was.
UnknownSessionNotFoundWithSelection ==
    [][ \A w \in Workers :
          ( /\ Starts(w)
            /\ handler'[w].session_id # NoSessionId
            /\ handler'[w].session_id \notin issued
            /\ handler'[w].selected_slides # <<>> )
          => /\ handler'[w].pc = "done"
             /\ handler'[w].resp.status = 404
             /\ handler'[w].puts = <<>>
             /\ session_storage' = session_storage ]_vars

\* C4: a request with a selection was answered 404 for a session id no
\* upload had returned, while a session was stored
UnknownSessionAsked ==
    \E w \in Workers :
        /\ handler[w].pc = "done"
        /\ ~handler[w].known
        /\ handler[w].session_id # NoSessionId
        /\ handler[w].selected_slides # <<>>
        /\ handler[w].resp.status = 404
        /\ handler[w].session_id \notin issued
        /\ DOMAIN session_storage # {}

\* the ids of a sequence of selections or of uploaded entries
Ids(entries) == [k \in 1..Len(entries) |-> entries[k].id]

\* the entries of a sequence at the places a mask marks
RECURSIVE Picked(_, _)
Picked(entries, mask) ==
    IF entries = <<>> THEN <<>>
    ELSE (IF Head(mask) THEN <<Head(entries)>> ELSE <<>>)
         \o Picked(Tail(entries), Tail(mask))

\* the entries of a sequence with category c
WithCategory(entries, c) ==
    LET Has(e) == e.category = c IN SelectSeq(entries, Has)

\* C3: for a selection whose id is outside 1..N no put_object call is made,
\* no entry appears in uploaded_slides, and the request does not fail on it.
OutOfRangeSelectionsIgnored ==
    \A w \in Workers :
        LET h == handler[w]
            n == Len(h.session_data.slides)
        IN  n > 0 =>
            \A k \in 1..Len(h.selected_slides) :
                h.selected_slides[k].id \notin 1..n =>
                    /\ \A j \in 1..Len(h.puts) :
                          h.puts[j].Key.filename.slide_id # h.selected_slides[k].id
                    /\ \A c \in DOMAIN h.uploaded_slides :
                          \A j \in 1..Len(h.uploaded_slides[c]) :
                              h.uploaded_slides[c][j].id # h.selected_slides[k].id
                    /\ h.resp.cause # "IndexError"

\* C6: when put_object fails for a selected slide the request ends at that
\* slide with a 500 that names the slide id and carries no uploaded_slides
\* or html_sections, whatever was uploaded before.
FailedUploadNamesSlide ==
    \A w \in Workers :
        LET h == handler[w] IN
        (h.pc = "done" /\ h.resp.cause \in {"ClientError", "OtherError"}) =>
            /\ h.resp.status = 500
            /\ h.resp.slide_id = h.selected_slides[h.i + 1].id
            /\ h.resp.uploaded_slides = EmptyDict
            /\ h.resp.html_sections = EmptyDict

\* C7: a successful process request has uploaded a subsequence of its
\* selection list that holds every selection with a category and an id in
\* 1..N: the put_object calls are that subsequence in order, uploaded_slides
\* and html_sections have one key per category of it, each category lists
\* its selections in selection order, and total_uploaded is its length.
GroupedInSelectionOrder ==
    \A w \in Workers :
        LET h == handler[w]
            n == Len(h.session_data.slides)
            sel == h.selected_slides
        IN  (h.pc = "done" /\ h.resp.status = 200) =>
            \E mask \in [1..Len(sel) -> BOOLEAN] :
                LET uploaded == Picked(sel, mask) IN
                /\ \A k \in 1..Len(sel) :
                      (sel[k].id \in 1..n /\ sel[k].category # <<>>) => mask[k]
                /\ [k \in 1..Len(h.puts) |-> h.puts[k].Key.filename.slide_id]
                      = Ids(uploaded)
                /\ DOMAIN h.resp.uploaded_slides
                      = {uploaded[k].category : k \in 1..Len(uploaded)}
                /\ DOMAIN h.resp.html_sections = DOMAIN h.resp.uploaded_slides
                /\ \A c \in DOMAIN h.resp.uploaded_slides :
                      /\ Ids(h.resp.uploaded_slides[c])
                            = Ids(WithCategory(uploaded, c))
                      /\ [k \in 1..Len(h.resp.html_sections[c].items) |->
                             h.resp.html_sections[c].items[k].caption]
                            = Ids(WithCategory(uploaded, c))
                /\ h.resp.total_uploaded = Len(uploaded)

\* C7: three selections were uploaded into two categories, one of them
\* holding slide 2 before slide 1 as the selection list had them
GroupedThreeSelections ==
    \E w \in Workers :
        /\ handler[w].pc = "done"
        /\ handler[w].resp.status = 200
        /\ handler[w].resp.total_uploaded = 3
        /\ Cardinality(DOMAIN handler[w].resp.uploaded_slides) = 2
        /\ \E c \in DOMAIN handler[w].resp.uploaded_slides :
              Ids(handler[w].resp.uploaded_slides[c]) = <<2, 1>>

\* C5: an upload that is valid but for its file of more than 50 MiB is
\* answered 413 and gets no session.
OversizedUploadRejected413 ==
    ( /\ upload_resp # NoResponse
      /\ upload_req.has_file
      /\ strip(upload_req.fund_id) # <<>>
      /\ strip(upload_req.fund_name) # <<>>
      /\ upload_req.filename # <<>>
      /\ allowed_file(upload_req.filename)
      /\ upload_req.file_size > MAX_CONTENT_LENGTH )
    => (upload_resp.status = 413 /\ upload_resp.session_id = NoSessionId)

\* C8: a successful upload returns the slides 1..N of the N >= 1 pages of
\* its PDF in page order and stores a new session with these slides and the
\* N full-size images in the same order; an upload whose conversion fails
\* at the start or on any page returns no slides and stores no session.
UploadAllPagesOrNone ==
    [][ Uploads =>
          LET pdf == upload_req'.pdf
              n == pdf.pages
              resp == upload_resp'
          IN  /\ resp.status = 200 =>
                    /\ n >= 1 /\ pdf.fail_at = n + 1
                    /\ Len(resp.slides) = n /\ resp.total_slides = n
                    /\ \A i \in 1..n :
                          /\ resp.slides[i].id = i
                          /\ resp.slides[i].thumbnail = Thumbnail([page |-> i])
                    /\ resp.session_id \notin DOMAIN session_storage
                    /\ resp.session_id \in DOMAIN session_storage'
                    /\ session_storage'[resp.session_id].slides = resp.slides
                    /\ Len(session_storage'[resp.session_id].temp_images) = n
                    /\ \A i \in 1..n :
                          session_storage'[resp.session_id].temp_images[i]
                              = FullImageData([page |-> i])
              /\ pdf.fail_at <= n =>
                    /\ resp.status # 200
                    /\ resp.slides = <<>>
                    /\ session_storage' = session_storage ]_vars

\* C8: an upload of a PDF of several pages has succeeded
UploadedAllPages ==
    /\ upload_resp.status = 200
    /\ upload_resp.total_slides = upload_req.pdf.pages
    /\ upload_resp.total_slides >= 2

\* C9: sanitizing a sanitized text returns it unchanged.
SanitizeIdempotent == san.pc = "twice" => san.twice = san.once

\* C9: a text that sanitizing changed, and did not empty, was sanitized again
SanitizedTwice ==
    /\ san.pc = "twice"
    /\ san.once # san.text
    /\ san.once # <<>>

\* C10: no temporary PDF file is on disk after an upload handler returned.
TempFileDiscarded == temp_files = {}

=============================================================================
